---- MODULE Spec2Model ----
(***************************************************************************)
(* FPCUP-Baltic drought pipelines: the TCI scaler (copernicus_tci.py), the *)
(* HTC aggregator (calculate_htc.py) and the DISS combiner                 *)
(* (copernicus_tci_diss.py).  Each script is a sequential batch job; the   *)
(* three share no state, so each has its own specification over its own    *)
(* variables while the other scripts' variables rest at "idle".            *)
(*                                                                         *)
(* Rasters are modelled by one pixel: every array operation of the scripts *)
(* is elementwise (or a reduction along the stack axis), so a pixel's      *)
(* output depends only on the same pixel of the inputs.                    *)
(***************************************************************************)
EXTENDS Integers, Sequences, FiniteSets, TLC

VARIABLES
    \* ---- copernicus_tci.py (scaler batch)
    s_pc,               \* "start" | "loop" | "completed" | "exited"
    static_ok,          \* water_mask.img and tci_colour.img both exist
    input_present,      \* buckets <<year, day>> whose input/tci<yy><dd>.tiff exists
    year, day,          \* loop counters of the main processing loop
    data,               \* raw pixel read from the current input file
    scaled_data,        \* the uint8 pixel written to <file_code>_scaled.tif
    color_mapped_data,  \* the uint8 pixel written to <file_code>.tif
    scaled_written, projected_written, color_written,  \* buckets with that output
    no_files_found,     \* buckets for which "No files found" was printed
    \* ---- one pixel through the scaling expression
    p_pc,               \* "in": raw pixel read | "out": scaled pixel computed
    raw, scaled,
    \* ---- calculate_htc.py (aggregator)
    a_pc,               \* "yearly" | "scan" | "stack" | "done" | "crashed"
    agg_year,           \* the yearly loop's counter
    TEMP, OPAD, HTC,    \* one pixel of the year's sums and ratio
    htc_written,        \* the years whose HTC_<year>.tif was written, in write order
    dir_listing,        \* os.listdir(htc_dir): the file names found
    htc_list,           \* the paths kept by the year filter
    HTC_MEDIAN,         \* one pixel of the multi-year median
    median_written,     \* whether HTC_median_2001_2024.tif was written
    \* ---- one pixel stack through the median expression
    m_pc,               \* "in": stack read | "out": median pixel computed
    m_stack, m_out,
    \* ---- copernicus_tci_diss.py (combiner)
    d_pc,               \* "run" | "done" | "crashed"
    d_i,                \* position of the loop in the dekad list
    coef,               \* the calibration coefficients a, b, c, diss_base, exp_factor
    ftci1, ftci2, ftci3,                \* the three index raster paths
    n1_tci1, n2_tci2, n3_tci3,          \* one uint8 pixel of each index raster
    n5_siel40median, n6_mask,           \* one pixel of the reference and of the mask
    n1_memory, n2_memory, n3_memory,    \* the memory terms
    n4_diss,            \* the continuous DISS pixel written to diss_<year><d>.tif
    n2_diss_kl,         \* the class written to diss_<year><d>_kl.tif
    diss_written, kl_written, png_written,  \* the dekads with that output
    \* ---- one value through the classification
    c_pc,               \* "in": value given | "out": class computed
    c_x, c_class

svars == <<s_pc, static_ok, input_present, year, day, data, scaled_data,
           color_mapped_data, scaled_written, projected_written, color_written,
           no_files_found>>
pvars == <<p_pc, raw, scaled>>
avars == <<a_pc, agg_year, TEMP, OPAD, HTC, htc_written, dir_listing, htc_list,
           HTC_MEDIAN, median_written>>
mvars == <<m_pc, m_stack, m_out>>
dvars == <<d_pc, d_i, coef, ftci1, ftci2, ftci3, n1_tci1, n2_tci2, n3_tci3,
           n5_siel40median, n6_mask, n1_memory, n2_memory, n3_memory, n4_diss,
           n2_diss_kl, diss_written, kl_written, png_written>>
cvars == <<c_pc, c_x, c_class>>
vars == <<svars, pvars, avars, mvars, dvars, cvars>>

(***************************************************************************)
(* copernicus_tci.py                                                       *)
(***************************************************************************)

\* start_date = "2401", end_date = "2436": int(start_date[:2]), int(end_date[:2]) + 1
start_year == 24
end_year == 24 + 1
\* range(1, 37): 36 TCI periods per year
first_day == 1
last_day == 36
\* the sentinel of the scaling expression and the "true zero" code of the colour map
scale_sentinel == 108
color_zero == 109

\* How many expected input files may be missing (or, at the other extreme, present)
\* in the file systems the batch is run on.
MaxMissing == 1
MaxPresent == 1
\* The scaling expression is checked for every raw value in
\* -ScaleMargin .. 10000 + ScaleMargin.
ScaleMargin == 300

Buckets == {<<y, d>> : y \in start_year..(end_year - 1), d \in first_day..last_day}

RECURSIVE SubsetsUpTo(_, _)
SubsetsUpTo(S, k) ==
    IF k = 0 THEN {{}}
    ELSE LET P == SubsetsUpTo(S, k - 1)
         IN  P \cup {p \cup {x} : p \in P, x \in S}

\* The file systems considered: few files missing, or few files present.
InputDirs ==
    {Buckets \ M : M \in SubsetsUpTo(Buckets, MaxMissing)}
        \cup SubsetsUpTo(Buckets, MaxPresent)

\* Raw pixel values read from an input file in the batch model.
RawSamples == {-1, 0, 10000, 10001}

\* astype(np.uint8) of a non-negative float given as hundredths: truncation, then
\* the 8-bit width.
AsUint8Hundredths(h) == (h \div 100) % 256

\* A variant with the upper bound of the valid range exclusive.
ScaleOffByOne(v) ==
    IF v >= 0 /\ v < 10000
    THEN AsUint8Hundredths(v + 100)
    ELSE AsUint8Hundredths(scale_sentinel * 100)

\* np.where((data >= 0) & (data <= 10000), ((data / 100) + 1), 108).astype(np.uint8)
\* data / 100 is true division: (data / 100) + 1 = (data + 100) / 100.
Scale(v) ==
    IF v >= 0 /\ v <= 10000
    THEN AsUint8Hundredths(v + 100)
    ELSE AsUint8Hundredths(scale_sentinel * 100)

\* np.where(data == 0, 109, scaled_data)
ColorMap(v, s) == IF v = 0 THEN color_zero ELSE s

\* Pixel variables start at 0: they are assigned before they are read.
ScalerInit ==
    /\ s_pc = "start"
    /\ static_ok \in BOOLEAN
    /\ input_present \in InputDirs
    /\ year = start_year
    /\ day = first_day
    /\ data = 0
    /\ scaled_data = 0
    /\ color_mapped_data = 0
    /\ scaled_written = {}
    /\ projected_written = {}
    /\ color_written = {}
    /\ no_files_found = {}

ScalerIdle ==
    /\ s_pc = "idle"
    /\ static_ok = FALSE
    /\ input_present = {}
    /\ year = 0
    /\ day = 0
    /\ data = 0
    /\ scaled_data = 0
    /\ color_mapped_data = 0
    /\ scaled_written = {}
    /\ projected_written = {}
    /\ color_written = {}
    /\ no_files_found = {}

\* if not os.path.exists(landwater_path) or not os.path.exists(tci_colour_path): exit()
Startup ==
    /\ s_pc = "start"
    /\ s_pc' = IF static_ok THEN "loop" ELSE "exited"
    /\ UNCHANGED <<static_ok, input_present, year, day, data, scaled_data,
                   color_mapped_data, scaled_written, projected_written,
                   color_written, no_files_found>>
    /\ UNCHANGED <<pvars, avars, mvars, dvars, cvars>>

\* The loop header's next bucket after <<year, day>>.
AdvanceBucket ==
    /\ day' = IF day = last_day THEN first_day ELSE day + 1
    /\ year' = IF day = last_day THEN year + 1 ELSE year

\* One iteration whose glob finds the input file: read, scale, save, project,
\* colour (gdal.Open of the scaled file just written is taken to succeed).
ProcessBucket ==
    /\ s_pc = "loop"
    /\ year < end_year
    /\ <<year, day>> \in input_present
    /\ \E v \in RawSamples :
          /\ data' = v
          /\ scaled_data' = Scale(v)
          /\ color_mapped_data' = ColorMap(v, Scale(v))
    /\ scaled_written' = scaled_written \cup {<<year, day>>}
    /\ projected_written' = projected_written \cup {<<year, day>>}
    /\ color_written' = color_written \cup {<<year, day>>}
    /\ AdvanceBucket
    /\ UNCHANGED <<s_pc, static_ok, input_present, no_files_found>>
    /\ UNCHANGED <<pvars, avars, mvars, dvars, cvars>>

\* A variant in which a missing file ends the batch instead of the iteration.
SkipBucketAborts ==
    /\ s_pc = "loop"
    /\ year < end_year
    /\ <<year, day>> \notin input_present
    /\ no_files_found' = no_files_found \cup {<<year, day>>}
    /\ s_pc' = "exited"
    /\ UNCHANGED <<static_ok, input_present, year, day, data, scaled_data,
                   color_mapped_data, scaled_written, projected_written,
                   color_written>>
    /\ UNCHANGED <<pvars, avars, mvars, dvars, cvars>>

\* One iteration whose glob finds nothing: print(...); continue
SkipBucket ==
    /\ s_pc = "loop"
    /\ year < end_year
    /\ <<year, day>> \notin input_present
    /\ no_files_found' = no_files_found \cup {<<year, day>>}
    /\ AdvanceBucket
    /\ UNCHANGED <<s_pc, static_ok, input_present, data, scaled_data,
                   color_mapped_data, scaled_written, projected_written,
                   color_written>>
    /\ UNCHANGED <<pvars, avars, mvars, dvars, cvars>>

\* The loop is exhausted: print("Processing completed.")
Complete ==
    /\ s_pc = "loop"
    /\ year >= end_year
    /\ s_pc' = "completed"
    /\ UNCHANGED <<static_ok, input_present, year, day, data, scaled_data,
                   color_mapped_data, scaled_written, projected_written,
                   color_written, no_files_found>>
    /\ UNCHANGED <<pvars, avars, mvars, dvars, cvars>>

ScalerNext ==
    \/ Startup
    \/ ProcessBucket
    \/ SkipBucket
    \/ Complete

\* ---- the scaling expression alone, over every raw value of the range
PixelInit ==
    /\ p_pc = "in"
    /\ raw \in (0 - ScaleMargin)..(10000 + ScaleMargin)
    /\ scaled = 0

PixelIdle == p_pc = "idle" /\ raw = 0 /\ scaled = 0

ScalePixel ==
    /\ p_pc = "in"
    /\ p_pc' = "out"
    /\ scaled' = Scale(raw)
    /\ UNCHANGED raw
    /\ UNCHANGED <<svars, avars, mvars, dvars, cvars>>

PixelNext == ScalePixel

(***************************************************************************)
(* Floating-point pixel values: a finite value n/d (d > 0, lowest terms),  *)
(* not-a-number, or an infinity.  Arithmetic is exact: rounding of the     *)
(* float formats is not modelled.                                          *)
(***************************************************************************)
NaN == [t |-> "nan", n |-> 0, d |-> 1]
PInf == [t |-> "inf", n |-> 1, d |-> 1]
NInf == [t |-> "inf", n |-> -1, d |-> 1]
Num(i) == [t |-> "num", n |-> i, d |-> 1]

Abs(i) == IF i < 0 THEN 0 - i ELSE i

RECURSIVE Gcd(_, _)
Gcd(x, y) == IF y = 0 THEN x ELSE Gcd(y, x % y)

\* The finite value p/q, q # 0.
Rat(p, q) ==
    LET g == Gcd(Abs(p), Abs(q))
        sg == IF q < 0 THEN -1 ELSE 1
    IN  [t |-> "num", n |-> (sg * p) \div g, d |-> (sg * q) \div g]

\* x + y of two values that are finite or not-a-number.
Add(x, y) ==
    IF x.t = "nan" \/ y.t = "nan" THEN NaN
    ELSE Rat(x.n * y.d + y.n * x.d, x.d * y.d)

\* x < y as floating point evaluates it (false when either is not-a-number).
Less(x, y) ==
    CASE x.t = "nan" \/ y.t = "nan" -> FALSE
      [] x.t = "inf" /\ y.t = "inf" -> x.n < y.n
      [] x.t = "inf" -> x.n < 0
      [] y.t = "inf" -> y.n > 0
      [] OTHER -> x.n * y.d < y.n * x.d

(***************************************************************************)
(* calculate_htc.py                                                        *)
(***************************************************************************)

\* for year in range(1997, 2025)
agg_first_year == 1997
agg_last_year == 2024
\* htc_years = list(range(2001, 2025))
htc_first_year == 2001
htc_last_year == 2024

\* Longest per-year raster stack read from the input directories.
AggMaxLen == 2

\* Pixel values of the temperature rasters and of the precipitation rasters.
TempPixels == {Num(-1), Num(1), NaN}
PrecPixels == {Num(0), Num(1), NaN}

RECURSIVE SeqsUpTo(_, _)
SeqsUpTo(S, k) ==
    IF k = 0 THEN {<<>>}
    ELSE LET P == SeqsUpTo(S, k - 1)
         IN  P \cup {Append(p, x) : p \in P, x \in S}

\* The per-year stacks of one pixel: rs_T and rs_P read band 1.
TempStacks == SeqsUpTo(TempPixels, AggMaxLen)
PrecStacks == SeqsUpTo(PrecPixels, AggMaxLen)

\* np.sum(np.array([r.read(1) for r in rs]), axis=0); the sum of no raster is 0.
RECURSIVE SumStack(_)
SumStack(s) == IF s = <<>> THEN Num(0) ELSE Add(Head(s), SumStack(Tail(s)))

\* OPAD / TEMP on float arrays: numpy warns and yields nan or +-inf on a zero
\* divisor, it does not raise.
Divide(p, q) ==
    CASE p.t = "nan" \/ q.t = "nan" -> NaN
      [] q.n = 0 /\ p.n = 0 -> NaN
      [] q.n = 0 /\ p.n > 0 -> PInf
      [] q.n = 0 /\ p.n < 0 -> NInf
      [] OTHER -> Rat(p.n * q.d, p.d * q.n)

\* np.where(np.isnan(HTC), np.nan, HTC)
ExcludeNA(x) == IF x.t = "nan" THEN NaN ELSE x

\* A variant whose range ends one year early.
LoopEndsEarly(y) == y >= agg_last_year

\* The yearly loop's range is exhausted.
LoopExhausted(y) == y > agg_last_year

AggInit ==
    /\ a_pc = "yearly"
    /\ agg_year = agg_first_year
    /\ TEMP = NaN
    /\ OPAD = NaN
    /\ HTC = NaN
    /\ htc_written = <<>>
    /\ dir_listing = {}
    /\ htc_list = {}
    /\ HTC_MEDIAN = NaN
    /\ median_written = FALSE

AggIdle ==
    /\ a_pc = "idle"
    /\ agg_year = 0
    /\ TEMP = NaN
    /\ OPAD = NaN
    /\ HTC = NaN
    /\ htc_written = <<>>
    /\ dir_listing = {}
    /\ htc_list = {}
    /\ HTC_MEDIAN = NaN
    /\ median_written = FALSE

\* One iteration of the yearly loop: list and open both stacks, sum, divide, write.
\* With no raster at all both sums are 0-d and HTC.shape[0] raises IndexError.
YearStep ==
    /\ a_pc = "yearly"
    /\ ~LoopExhausted(agg_year)
    /\ \E files_T \in TempStacks, files_P \in PrecStacks :
          IF files_T = <<>> /\ files_P = <<>>
          THEN /\ a_pc' = "crashed"
               /\ UNCHANGED <<agg_year, TEMP, OPAD, HTC, htc_written>>
          ELSE /\ TEMP' = SumStack(files_T)
               /\ OPAD' = SumStack(files_P)
               /\ HTC' = ExcludeNA(Divide(SumStack(files_P), SumStack(files_T)))
               /\ htc_written' = Append(htc_written, agg_year)
               /\ agg_year' = agg_year + 1
               /\ UNCHANGED a_pc
    /\ UNCHANGED <<dir_listing, htc_list, HTC_MEDIAN, median_written>>
    /\ UNCHANGED <<svars, pvars, mvars, dvars, cvars>>

\* An input directory of the year does not exist: os.listdir raises.
YearDirMissing ==
    /\ a_pc = "yearly"
    /\ ~LoopExhausted(agg_year)
    /\ a_pc' = "crashed"
    /\ UNCHANGED <<agg_year, TEMP, OPAD, HTC, htc_written, dir_listing, htc_list,
                   HTC_MEDIAN, median_written>>
    /\ UNCHANGED <<svars, pvars, mvars, dvars, cvars>>

\* ---- file names and paths: strings as sequences of characters
DigitChars == <<"0", "1", "2", "3", "4", "5", "6", "7", "8", "9">>

\* str(n) of a non-negative integer
RECURSIVE Str(_)
Str(n) ==
    IF n < 10 THEN <<DigitChars[n + 1]>>
    ELSE Str(n \div 10) \o <<DigitChars[(n % 10) + 1]>>

Min(x, y) == IF x <= y THEN x ELSE y

\* Python's f[i:j] for 0 <= i <= j
Slice(f, i, j) == SubSeq(f, i + 1, Min(j, Len(f)))

\* f.endswith(suffix)
EndsWith(f, suffix) ==
    /\ Len(f) >= Len(suffix)
    /\ SubSeq(f, Len(f) - Len(suffix) + 1, Len(f)) = suffix

\* os.path.join(dir, f) of a relative file name
PathJoin(dir, f) ==
    IF dir = <<>> THEN f
    ELSE IF dir[Len(dir)] = "/" THEN dir \o f
    ELSE dir \o <<"/">> \o f

\* htc_dir = "PATH_TO_HTC_DATA/"
htc_dir ==
    <<"P", "A", "T", "H", "_", "T", "O", "_", "H", "T", "C", "_", "D", "A", "T", "A", "/">>

tif_suffix == <<".", "t", "i", "f">>
txt_suffix == <<".", "t", "x", "t">>

\* The yearly output's file name, HTC_<year>.tif, and the same with another suffix.
HtcName(y, suffix) == <<"H", "T", "C", "_">> \o Str(y) \o suffix

\* File names a listing of htc_dir may hold.
DirCandidates ==
    {HtcName(y, tif_suffix) : y \in {1999, 2001, 2024, 2025}}
        \cup {HtcName(2010, txt_suffix)}

\* map(str, htc_years)
HtcYearStrings == {Str(y) : y \in htc_first_year..htc_last_year}

\* f[4:8] in map(str, htc_years), f being the joined path os.path.join(htc_dir, name)
YearFilter(dir, f) == Slice(PathJoin(dir, f), 4, 8) \in HtcYearStrings

\* htc_list after lines 53 and 56
FilteredList(listing) ==
    {PathJoin(htc_dir, f) : f \in {g \in listing : EndsWith(g, tif_suffix)
                                                  /\ YearFilter(htc_dir, g)}}

\* ---- the median of a stack
\* the mean of the two middle values of an even stack
Mean(x, y) ==
    CASE x.t = "inf" /\ y.t = "inf" -> IF x.n = y.n THEN x ELSE NaN
      [] x.t = "inf" -> x
      [] y.t = "inf" -> y
      [] OTHER -> Rat(x.n * y.d + y.n * x.d, 2 * x.d * y.d)

RECURSIVE Insert(_, _)
Insert(x, s) ==
    IF s = <<>> THEN <<x>>
    ELSE IF Less(Head(s), x) THEN <<Head(s)>> \o Insert(x, Tail(s))
    ELSE <<x>> \o s

RECURSIVE SortStack(_)
SortStack(s) == IF s = <<>> THEN <<>> ELSE Insert(Head(s), SortStack(Tail(s)))

\* np.median(stack, axis=0): nan if any value is nan (or the stack is empty)
Median(s) ==
    IF s = <<>> \/ \E i \in 1..Len(s) : s[i].t = "nan" THEN NaN
    ELSE LET srt == SortStack(s)
             len == Len(s)
         IN  IF len % 2 = 1 THEN srt[(len + 1) \div 2]
             ELSE Mean(srt[len \div 2], srt[(len \div 2) + 1])

\* A variant that scrubs zero as well (the source's comment reads "0 to NA").
ScrubNonPositive(x) == IF Less(x, Num(0)) \/ x = Num(0) THEN NaN ELSE x

\* HTC_MEDIAN[HTC_MEDIAN < 0] = np.nan
ScrubNegative(x) == IF Less(x, Num(0)) THEN NaN ELSE x

\* A stack in some order from the pixels read from the files of a list.
RECURSIVE StackOf(_, _)
StackOf(files, pix) ==
    IF files = {} THEN <<>>
    ELSE LET f == CHOOSE g \in files : TRUE
         IN  <<pix[f]>> \o StackOf(files \ {f}, pix)

\* Longest stack of yearly rasters fed to the median.
MedMaxLen == 5

\* Pixel values of the yearly rasters.
MedPixels == {Num(-1), Num(1), Num(2), Num(3), Num(4), Num(5), NaN, PInf}

\* Lines 51-56: list htc_dir, keep the .tif files, filter by year.
ScanOutputs ==
    /\ a_pc = "yearly"
    /\ LoopExhausted(agg_year)
    /\ \E listing \in SUBSET DirCandidates :
          /\ dir_listing' = listing
          /\ htc_list' = FilteredList(listing)
    /\ a_pc' = "stack"
    /\ UNCHANGED <<agg_year, TEMP, OPAD, HTC, htc_written, HTC_MEDIAN, median_written>>
    /\ UNCHANGED <<svars, pvars, mvars, dvars, cvars>>

\* Lines 59-69: open and read the stack, median, scrub, write.  With an empty
\* list the median is a 0-d nan: the item assignment raises TypeError.
ComputeMedian ==
    /\ a_pc = "stack"
    /\ IF htc_list = {}
       THEN /\ a_pc' = "crashed"
            /\ UNCHANGED <<HTC_MEDIAN, median_written>>
       ELSE /\ \E pix \in [htc_list -> MedPixels] :
                  HTC_MEDIAN' = ScrubNegative(Median(StackOf(htc_list, pix)))
            /\ median_written' = TRUE
            /\ a_pc' = "done"
    /\ UNCHANGED <<agg_year, TEMP, OPAD, HTC, htc_written, dir_listing, htc_list>>
    /\ UNCHANGED <<svars, pvars, mvars, dvars, cvars>>

AggNext ==
    \/ YearStep
    \/ YearDirMissing
    \/ ScanOutputs
    \/ ComputeMedian

\* ---- the median expression alone, over every stack of the bounds
MedianInit ==
    /\ m_pc = "in"
    /\ m_stack \in SeqsUpTo(MedPixels, MedMaxLen) \ {<<>>}
    /\ m_out = NaN

MedianIdle == m_pc = "idle" /\ m_stack = <<>> /\ m_out = NaN

MedianPixel ==
    /\ m_pc = "in"
    /\ m_pc' = "out"
    /\ m_out' = ScrubNegative(Median(m_stack))
    /\ UNCHANGED m_stack
    /\ UNCHANGED <<svars, pvars, avars, dvars, cvars>>

MedianNext == MedianPixel

(***************************************************************************)
(* copernicus_tci_diss.py                                                  *)
(***************************************************************************)

\* x - y and x * y of finite values
Sub(x, y) == Rat(x.n * y.d - y.n * x.d, x.d * y.d)
Mul(x, y) == Rat(x.n * y.n, x.d * y.d)

\* tci_path = "D:/FPCUP BALTIC/TCI/"
tci_path ==
    <<"D", ":", "/", "F", "P", "C", "U", "P", " ", "B", "A", "L", "T", "I", "C", "/",
      "T", "C", "I", "/">>
\* year = "2022"
diss_year == <<"2", "0", "2", "2">>
img_suffix == <<".", "i", "m", "g">>
tci_prefix == <<"t", "c", "i">>

\* s.zfill(2)
ZFill2(str) == IF Len(str) < 2 THEN <<"0">> \o str ELSE str

\* int(s) of a string of digits
DigitValue(ch) == CHOOSE i \in 0..9 : DigitChars[i + 1] = ch
RECURSIVE IntOf(_)
IntOf(str) ==
    IF str = <<>> THEN 0
    ELSE 10 * IntOf(SubSeq(str, 1, Len(str) - 1)) + DigitValue(str[Len(str)])

\* dekad = ["05", "06", ..., "30"]
dekad == [i \in 1..26 |-> ZFill2(Str(i + 4))]

Ftci1(d) == tci_path \o tci_prefix \o diss_year \o d \o img_suffix
\* the previous dekad's and the dekad before that's path: lines 68 and 69 append
\* no ".img"
Ftci2(d) == tci_path \o tci_prefix \o diss_year \o ZFill2(Str(IntOf(d) - 1))
Ftci3(d) == tci_path \o tci_prefix \o diss_year \o ZFill2(Str(IntOf(d) - 2))

\* Index pixels read from the uint8 index rasters (108: the scaler's sentinel,
\* 255: the warp's nodata).
TciPixels == {50, 101, 108, 255}
\* Pixels of the reference raster (the HTC median: not-a-number where scrubbed).
RefPixels == {NaN, Rat(1, 2)}
\* Pixels of the land-use mask.
MaskPixels == {1, 2}

\* The calibration considered.  The source leaves the five coefficients unset
\* (a = ?.? ...); integer coefficients keep the exponent an integer.
DissConfigs ==
    {[a |-> Num(1), b |-> Num(-2), c |-> Num(1), diss_base |-> Rat(3, 10),
      exp_factor |-> Num(0)]}

\* np.where(n_tci <= 101, n_tci, 50)
SingleMemory(v) == IF v <= 101 THEN Num(v) ELSE Num(50)

\* np.where(n2_tci2 <= 101, n2_tci2, 0.5 * (n1_tci1 + n3_tci3)): the sum of two
\* uint8 arrays is a uint8 array.
MiddleMemory(v1, v2, v3) ==
    IF v2 <= 101 THEN Num(v2) ELSE Mul(Rat(1, 2), Num((v1 + v3) % 256))

\* A continuous DISS value: not-a-number, an infinity of sign m, or the finite
\* value m * exp(e) for finite m and e (m = 0 is kept with e = 0).
DissNaN == [t |-> "nan", m |-> Num(0), e |-> Num(0)]
DissInf(sign) == [t |-> "inf", m |-> Num(sign), e |-> Num(0)]
DissExp(m, e) == [t |-> "num", m |-> m, e |-> IF m.n = 0 THEN Num(0) ELSE e]
\* the literal -1 of the mask line
DissMinusOne == DissExp(Num(-1), Num(0))

\* (n5_siel40median - diss_base) *
\*     np.exp(2 * (exp_factor + a * n1_memory + b * n2_memory + c * n3_memory))
DissFormula(n5, m1, m2, m3, cf) ==
    CASE n5.t = "nan" -> DissNaN
      [] n5.t = "inf" -> DissInf(n5.n)
      [] OTHER ->
           DissExp(Sub(n5, cf.diss_base),
                   Mul(Num(2), Add(Add(Add(cf.exp_factor, Mul(cf.a, m1)),
                                       Mul(cf.b, m2)),
                                   Mul(cf.c, m3))))

\* A variant with the branches of the mask exchanged.
ApplyMaskInverted(mask, x) == IF mask = 1 THEN DissMinusOne ELSE x

\* np.where(n6_mask == 1, n4_diss, -1)
ApplyMask(mask, x) == IF mask = 1 THEN x ELSE DissMinusOne

\* Enclosure of 1000 * exp(k) for k = 0 .. 7 (exact at k = 0).
ExpLo == <<1000, 2718, 7389, 20085, 54598, 148413, 403428, 1096633>>
ExpHi == <<1000, 2719, 7390, 20086, 54599, 148414, 403429, 1096634>>
ExpTabMax == Len(ExpLo) - 1

\* edge <= m * exp(k) for a finite edge >= 0, finite m and an integer k: for
\* k >= 0 it is edge <= m * exp(k), for k < 0 it is edge * exp(-k) <= m, and the
\* enclosure of exp (exp(j) > exp(7) for j > 7) decides either.  A value closer
\* to an edge than the enclosure resolves is not classified by the model.
EdgeLeq(edge, x) ==
    LET m == x.m
        k == x.e.n
        j == Min(Abs(k), ExpTabMax)
        lo == ExpLo[j + 1]
        hi == ExpHi[j + 1]
        exact == Abs(k) <= ExpTabMax
    IN  CASE m.n < 0 -> FALSE
          [] m.n = 0 -> edge.n = 0
          [] m.n > 0 /\ edge.n = 0 -> TRUE
          [] m.n > 0 /\ edge.n > 0 /\ k >= 0
                 /\ m.n * lo * edge.d >= 1000 * edge.n * m.d -> TRUE
          [] m.n > 0 /\ edge.n > 0 /\ k >= 0 /\ exact
                 /\ m.n * hi * edge.d < 1000 * edge.n * m.d -> FALSE
          [] m.n > 0 /\ edge.n > 0 /\ k < 0 /\ exact
                 /\ 1000 * m.n * edge.d >= edge.n * hi * m.d -> TRUE
          [] m.n > 0 /\ edge.n > 0 /\ k < 0
                 /\ 1000 * m.n * edge.d < edge.n * lo * m.d -> FALSE

\* bins=[0.0, 0.5, 0.8, 1.5, 5.0, np.inf]
finite_bins == <<Num(0), Rat(1, 2), Rat(4, 5), Rat(3, 2), Num(5)>>
n_bins == Len(finite_bins) + 1

\* A variant with right-inclusive bins (np.digitize(..., right=True)).
DigitizeRightInclusive(x) ==
    CASE x.t = "nan" -> n_bins
      [] x.t = "inf" -> IF x.m.n > 0 THEN n_bins ELSE 0
      [] OTHER ->
           Cardinality({i \in 1..Len(finite_bins) :
                           EdgeLeq(finite_bins[i], x) /\ DissExp(finite_bins[i], Num(0)) # x})

\* np.digitize(x, bins): the number of bins b with b <= x, not-a-number sorting
\* after every bin (searchsorted, side='right')
Digitize(x) ==
    CASE x.t = "nan" -> n_bins
      [] x.t = "inf" -> IF x.m.n > 0 THEN n_bins ELSE 0
      [] OTHER ->
           Cardinality({i \in 1..Len(finite_bins) : EdgeLeq(finite_bins[i], x)})

DissInit ==
    /\ d_pc = "run"
    /\ d_i = 1
    /\ coef \in DissConfigs
    /\ ftci1 = <<>>
    /\ ftci2 = <<>>
    /\ ftci3 = <<>>
    /\ n1_tci1 = 0
    /\ n2_tci2 = 0
    /\ n3_tci3 = 0
    /\ n5_siel40median = NaN
    /\ n6_mask = 0
    /\ n1_memory = Num(0)
    /\ n2_memory = Num(0)
    /\ n3_memory = Num(0)
    /\ n4_diss = DissNaN
    /\ n2_diss_kl = 0
    /\ diss_written = {}
    /\ kl_written = {}
    /\ png_written = {}

DissIdle ==
    /\ d_pc = "idle"
    /\ d_i = 0
    /\ coef = [a |-> Num(0), b |-> Num(0), c |-> Num(0), diss_base |-> Num(0),
               exp_factor |-> Num(0)]
    /\ ftci1 = <<>>
    /\ ftci2 = <<>>
    /\ ftci3 = <<>>
    /\ n1_tci1 = 0
    /\ n2_tci2 = 0
    /\ n3_tci3 = 0
    /\ n5_siel40median = NaN
    /\ n6_mask = 0
    /\ n1_memory = Num(0)
    /\ n2_memory = Num(0)
    /\ n3_memory = Num(0)
    /\ n4_diss = DissNaN
    /\ n2_diss_kl = 0
    /\ diss_written = {}
    /\ kl_written = {}
    /\ png_written = {}

\* One iteration of process_year_dekad whose five rasters all open.
DekadStep ==
    /\ d_pc = "run"
    /\ d_i <= Len(dekad)
    /\ ftci1' = Ftci1(dekad[d_i])
    /\ ftci2' = Ftci2(dekad[d_i])
    /\ ftci3' = Ftci3(dekad[d_i])
    /\ \E v1 \in TciPixels, v2 \in TciPixels, v3 \in TciPixels,
          ref \in RefPixels, mask \in MaskPixels :
          LET m1 == SingleMemory(v1)
              m2 == MiddleMemory(v1, v2, v3)
              m3 == SingleMemory(v3)
              masked == ApplyMask(mask, DissFormula(ref, m1, m2, m3, coef))
          IN  /\ n1_tci1' = v1
              /\ n2_tci2' = v2
              /\ n3_tci3' = v3
              /\ n5_siel40median' = ref
              /\ n6_mask' = mask
              /\ n1_memory' = m1
              /\ n2_memory' = m2
              /\ n3_memory' = m3
              /\ n4_diss' = masked
              /\ n2_diss_kl' = Digitize(masked)
    /\ diss_written' = diss_written \cup {dekad[d_i]}
    /\ kl_written' = kl_written \cup {dekad[d_i]}
    /\ png_written' = png_written \cup {dekad[d_i]}
    /\ d_i' = d_i + 1
    /\ UNCHANGED <<d_pc, coef>>
    /\ UNCHANGED <<svars, pvars, avars, mvars, cvars>>

\* One of the rasters does not open: gdal.Open returns None and ReadAsArray raises.
DekadReadFails ==
    /\ d_pc = "run"
    /\ d_i <= Len(dekad)
    /\ ftci1' = Ftci1(dekad[d_i])
    /\ ftci2' = Ftci2(dekad[d_i])
    /\ ftci3' = Ftci3(dekad[d_i])
    /\ d_pc' = "crashed"
    /\ UNCHANGED <<d_i, coef, n1_tci1, n2_tci2, n3_tci3, n5_siel40median, n6_mask,
                   n1_memory, n2_memory, n3_memory, n4_diss, n2_diss_kl,
                   diss_written, kl_written, png_written>>
    /\ UNCHANGED <<svars, pvars, avars, mvars, cvars>>

\* The list is exhausted: print("Processing complete!")
DissFinish ==
    /\ d_pc = "run"
    /\ d_i > Len(dekad)
    /\ d_pc' = "done"
    /\ UNCHANGED <<d_i, coef, ftci1, ftci2, ftci3, n1_tci1, n2_tci2, n3_tci3,
                   n5_siel40median, n6_mask, n1_memory, n2_memory, n3_memory,
                   n4_diss, n2_diss_kl, diss_written, kl_written, png_written>>
    /\ UNCHANGED <<svars, pvars, avars, mvars, cvars>>

DissNext ==
    \/ DekadStep
    \/ DekadReadFails
    \/ DissFinish

\* ---- the classification alone, over a grid of values around every edge
\* Mantissas m/10 for |m| <= ClsMaxTenths and exponents |k| <= ClsMaxExp.
ClsMaxTenths == 55
ClsMaxExp == 1

ClassifyInputs ==
    {DissNaN, DissInf(1), DissInf(-1)}
        \cup {DissExp(Rat(m, 10), Num(k)) :
                 m \in (0 - ClsMaxTenths)..ClsMaxTenths,
                 k \in (0 - ClsMaxExp)..ClsMaxExp}

ClassifyInit ==
    /\ c_pc = "in"
    /\ c_x \in ClassifyInputs
    /\ c_class = 0

ClassifyIdle == c_pc = "idle" /\ c_x = DissNaN /\ c_class = 0

ClassifyValue ==
    /\ c_pc = "in"
    /\ c_pc' = "out"
    /\ c_class' = Digitize(c_x)
    /\ UNCHANGED c_x
    /\ UNCHANGED <<svars, pvars, avars, mvars, dvars>>

ClassifyNext == ClassifyValue

(***************************************************************************)
(* Specifications                                                          *)
(***************************************************************************)
SpecInitScaler ==
    ScalerInit /\ PixelIdle /\ AggIdle /\ MedianIdle /\ DissIdle /\ ClassifyIdle
\* A sequential script keeps running until it ends: weak fairness of its next step.
SpecScaler == SpecInitScaler /\ [][ScalerNext]_vars /\ WF_vars(ScalerNext)

SpecInitPixel ==
    PixelInit /\ ScalerIdle /\ AggIdle /\ MedianIdle /\ DissIdle /\ ClassifyIdle
SpecPixel == SpecInitPixel /\ [][PixelNext]_vars

SpecInitAgg ==
    AggInit /\ ScalerIdle /\ PixelIdle /\ MedianIdle /\ DissIdle /\ ClassifyIdle
SpecAgg == SpecInitAgg /\ [][AggNext]_vars

SpecInitMedian ==
    MedianInit /\ ScalerIdle /\ PixelIdle /\ AggIdle /\ DissIdle /\ ClassifyIdle
SpecMedian == SpecInitMedian /\ [][MedianNext]_vars

SpecInitDiss ==
    DissInit /\ ScalerIdle /\ PixelIdle /\ AggIdle /\ MedianIdle /\ ClassifyIdle
SpecDiss == SpecInitDiss /\ [][DissNext]_vars

SpecInitClassify ==
    ClassifyInit /\ ScalerIdle /\ PixelIdle /\ AggIdle /\ MedianIdle /\ DissIdle
SpecClassify == SpecInitClassify /\ [][ClassifyNext]_vars

(***************************************************************************)
(* Properties                                                              *)
(***************************************************************************)

\* C1: the scaled pixel is 108 when the raw value is below 0 or above 10000, and
\* otherwise the integer part of raw/100 + 1, which lies in 1..101 (no 8-bit
\* wrap-around); 0 -> 1, 10000 -> 101, 10001 -> 108, -1 -> 108.
C1_ScaledValue ==
    p_pc = "out" =>
        /\ (raw < 0 \/ raw > 10000) => scaled = 108
        /\ (raw >= 0 /\ raw <= 10000) =>
              /\ scaled \in 1..101
              /\ 100 * (scaled - 1) <= raw
              /\ raw < 100 * scaled
        /\ raw = 0 => scaled = 1
        /\ raw = 10000 => scaled = 101
        /\ raw = 10001 => scaled = 108
        /\ raw = -1 => scaled = 108

C1_Witness == p_pc = "out" /\ raw = 10000 /\ scaled = 101

\* The yearly ratio as the claim C2 states it, for the year written last.
RatioAsClaimed ==
    IF TEMP.t = "nan" \/ OPAD.t = "nan" \/ TEMP = Num(0)
    THEN HTC = NaN
    ELSE /\ HTC.t = "num"
         /\ HTC.n * TEMP.n * OPAD.d = OPAD.n * TEMP.d * HTC.d

\* C2: the ratio written to HTC_<year>.tif is not-a-number whenever the summed
\* temperature is zero or any input is not-a-number, and otherwise equals
\* (sum of precipitation) / (sum of temperature).
C2_RatioOrNaN == htc_written # <<>> => RatioAsClaimed

\* The year embedded in a yearly output's file name HTC_<year>.tif
EmbeddedYear(f) == Slice(f, 4, 8)

\* C3: a file of the listing is in the stack fed to the median if and only if it
\* is a .tif file whose file name embeds a year of 2001..2024.
C3_FilterByYear ==
    \A f \in dir_listing :
        PathJoin(htc_dir, f) \in htc_list
            <=> (EndsWith(f, tif_suffix) /\ EmbeddedYear(f) \in HtcYearStrings)

\* The h-th smallest value of a stack without not-a-number.
Ranked(s, h) ==
    CHOOSE x \in {s[i] : i \in 1..Len(s)} :
        /\ Cardinality({i \in 1..Len(s) : Less(s[i], x)}) < h
        /\ h <= Cardinality({i \in 1..Len(s) : ~Less(x, s[i])})

C5_MaskEnforced ==
    diss_written # {} =>
        /\ n6_mask # 1 => n4_diss = DissMinusOne
        /\ n6_mask = 1 =>
              n4_diss = DissFormula(n5_siel40median, n1_memory, n2_memory,
                                    n3_memory, coef)

C5_Witness ==
    /\ diss_written # {}
    /\ n6_mask = 2
    /\ n4_diss = DissMinusOne
    /\ DissFormula(n5_siel40median, n1_memory, n2_memory, n3_memory, coef)
           # DissMinusOne

\* The number of the edges 0.0, 0.5, 0.8, 1.5, 5.0 that are <= x (none is <= a
\* not-a-number).
EdgesAtOrBelow(x) ==
    CASE x.t = "nan" -> 0
      [] x.t = "inf" -> IF x.m.n > 0 THEN Len(finite_bins) ELSE 0
      [] OTHER ->
           Cardinality({i \in 1..Len(finite_bins) : EdgeLeq(finite_bins[i], x)})

\* C6 (as stated): for every continuous value the class is the number of edges
\* among 0.0, 0.5, 0.8, 1.5, 5.0 that are <= it.
C6_ClassIsEdgeCount == c_pc = "out" => c_class = EdgesAtOrBelow(c_x)

Tenths(m) == DissExp(Rat(m, 10), Num(0))

\* C6 (amended): for every value that is neither not-a-number nor +infinity the
\* class is the number of edges among 0.0, 0.5, 0.8, 1.5, 5.0 that are <= it
\* (an edge falls into the bin it starts, a value just below into the bin
\* before, a negative value and the sentinel -1 into class 0); not-a-number and
\* +infinity get class 6.
C6_LeftInclusive ==
    c_pc = "out" =>
        /\ IF c_x.t = "nan" \/ c_x = DissInf(1)
           THEN c_class = 6
           ELSE c_class = EdgesAtOrBelow(c_x)
        /\ c_x = Tenths(0) => c_class = 1
        /\ c_x = Tenths(5) => c_class = 2
        /\ c_x = Tenths(8) => c_class = 3
        /\ c_x = Tenths(15) => c_class = 4
        /\ c_x = Tenths(50) => c_class = 5
        /\ c_x = Tenths(4) => c_class = 1
        /\ c_x = Tenths(7) => c_class = 2
        /\ c_x = Tenths(14) => c_class = 3
        /\ c_x = Tenths(49) => c_class = 4
        /\ c_x = DissMinusOne => c_class = 0
        /\ (c_x.t = "num" /\ c_x.m.n < 0) => c_class = 0

C6_Witness == c_pc = "out" /\ c_x = Tenths(5) /\ c_class = 2

\* Bucket b's iteration is over.
Processed(b) == b[1] < year \/ (b[1] = year /\ b[2] < day)

\* A processed bucket has its outputs if its input file is present, and no
\* output and a diagnostic if it is absent.
BucketSettled(b) ==
    IF b \in input_present
    THEN /\ b \in scaled_written
         /\ b \in color_written
         /\ b \notin no_files_found
    ELSE /\ b \notin (scaled_written \cup projected_written \cup color_written)
         /\ b \in no_files_found

\* C7 (as stated): whichever input files are present, the run ends only at
\* "Processing completed", with every bucket settled.
C7_AlwaysCompletes ==
    ~(ENABLED ScalerNext) =>
        (s_pc = "completed" /\ \A b \in Buckets : BucketSettled(b))

\* C7 (amended): provided water_mask.img and tci_colour.img exist, whichever
\* input files are present the run reaches "Processing completed"; every
\* processed bucket has its scaled and colour-mapped outputs if its input is
\* present and no output and only a diagnostic if it is absent; a missing file
\* never stops the run, which ends only at completion with every bucket settled
\* (without the two static files it exits before the first bucket).
C7_CompletesGivenStaticFiles ==
    /\ [](s_pc \in {"loop", "completed"} =>
              \A b \in Buckets : IF Processed(b) THEN BucketSettled(b)
                                 ELSE b \notin (scaled_written \cup color_written
                                                    \cup no_files_found))
    /\ [](~(ENABLED ScalerNext) =>
              IF static_ok
              THEN s_pc = "completed" /\ \A b \in Buckets : Processed(b)
              ELSE s_pc = "exited" /\ scaled_written = {} /\ color_written = {})
    /\ (static_ok ~> s_pc = "completed")

C7_Witness ==
    /\ s_pc = "completed"
    /\ \E b \in no_files_found, c \in color_written : b[2] < c[2]

\* The years of the yearly loop, in order.
AllYears == [i \in 1..(agg_last_year - agg_first_year + 1) |-> agg_first_year + i - 1]

\* The median phase has started (the scan of htc_dir has run).
MedianStarted ==
    \/ a_pc \in {"stack", "done"}
    \/ a_pc = "crashed" /\ agg_year > agg_last_year

\* C8: the median phase starts only after the yearly loop has written one output
\* per year of 1997..2024, in increasing year order, and no yearly output is
\* written once it has started.
C8_PhaseBarrier ==
    /\ [](\A i \in 1..Len(htc_written) : htc_written[i] = agg_first_year + i - 1)
    /\ [](MedianStarted => htc_written = AllYears)
    /\ [][MedianStarted => htc_written' = htc_written]_vars

C8_Witness == a_pc = "stack" /\ htc_written = AllYears /\ dir_listing # {}

\* The middle term as the claim C9 states it.
MiddleMemoryOfValidTerms(v1, v2, v3) ==
    IF v2 <= 101 THEN Num(v2)
    ELSE Mul(Rat(1, 2), Add(SingleMemory(v1), SingleMemory(v3)))

\* x <= 101 of a finite value
AtMost101(x) == x.n <= 101 * x.d

\* C9: term1 and term3 are the source value if it is <= 101 and else 50; the
\* middle term is the source value if it is <= 101 and else the average of the
\* two neighbouring valid terms; so every memory term is <= 101.
C9_MemoryTerms ==
    diss_written # {} =>
        /\ n1_memory = (IF n1_tci1 <= 101 THEN Num(n1_tci1) ELSE Num(50))
        /\ n3_memory = (IF n3_tci3 <= 101 THEN Num(n3_tci3) ELSE Num(50))
        /\ n2_memory = MiddleMemoryOfValidTerms(n1_tci1, n2_tci2, n3_tci3)
        /\ AtMost101(n1_memory) /\ AtMost101(n2_memory) /\ AtMost101(n3_memory)

\* The index raster path of period p by the naming convention of ftci1.
TciPathOf(p) == tci_path \o tci_prefix \o diss_year \o ZFill2(Str(p)) \o img_suffix

\* C10: for the period d of the iteration (05..30) the three paths read are those
\* of periods d, d-1 and d-2 >= 1 by the same naming convention, extension
\* included.
C10_SameNaming ==
    ftci1 # <<>> =>
        \E i \in 1..Len(dekad) :
            LET p == IntOf(dekad[i])
            IN  /\ p - 2 >= 1
                /\ ftci1 = TciPathOf(p)
                /\ ftci2 = TciPathOf(p - 1)
                /\ ftci3 = TciPathOf(p - 2)

====
